---- MODULE Spec2Model ----
(***************************************************************************)
(* Model of fedbot.py's extractive summarizer, summarize(text, n).         *)
(*                                                                         *)
(* Representation.  A text is a finite sequence of tokens.  The token "."  *)
(* is sentence-final punctuation, "the" is a stopword, "cats" and "dogs"  *)
(* are significant words.  A sentence is the run of tokens up to and with  *)
(* its final ".", so joining sentences with one space is concatenation of  *)
(* their token runs.  Sentence indices are 1-based here (Python: 0-based). *)
(* A Counter is the sequence of its (key, count) entries in insertion      *)
(* order, which is the iteration order of a Python dict.  Scores are kept  *)
(* as exact fractions num/den instead of doubles.                          *)
(***************************************************************************)
EXTENDS Integers, Sequences, FiniteSets, TLC

VARIABLES
    request,          \* the (text, k) whose calls are compared
    first_result,     \* what the first call on request returned
    phase,            \* kind of the latest call: "new", "first", "other", "repeat"
    interleaved,      \* a call with other arguments has run since the first call
    text,             \* arguments of the latest call
    num_sentences,
    sentences,        \* its locals, as last bound (<<>> / 0 while unbound)
    words,
    word_freq,
    max_freq,
    freq_by_sentence,
    top,              \* indices of freq_by_sentence.most_common(num_sentences), rank order
    result            \* what the latest call returned or raised

vars == <<request, first_result, phase, interleaved, text, num_sentences, sentences,
          words, word_freq, max_freq, freq_by_sentence, top, result>>

\* ----- bounds of the exploration
MaxTextLen == 4
MaxRepeatLen == 3
MaxOtherLen == 1
MaxK == 2

DEFAULT_SENTENCES == 5

\* ----- vocabulary and the module-level filter sets
Vocabulary == {"cats", "dogs", "the", "."}
ignored_words == {"the"}
punctuation == {"."}

SeqsUpTo(S, n) == UNION {[1..m -> S] : m \in 0..n}
Texts == SeqsUpTo(Vocabulary, MaxTextLen)
RepeatTexts == SeqsUpTo(Vocabulary, MaxRepeatLen)
OtherTexts == SeqsUpTo(Vocabulary, MaxOtherLen)
Ks == 1..MaxK

Min(x, y) == IF x <= y THEN x ELSE y
Range(s) == {s[i] : i \in 1..Len(s)}

\* ----- sent_tokenize: a sentence ends with its "." token; a trailing run
\* without "." is the last sentence
RECURSIVE SplitSentences(_, _, _)
SplitSentences(rest, cur, acc) ==
    IF rest = <<>>
    THEN IF cur = <<>> THEN acc ELSE Append(acc, cur)
    ELSE IF Head(rest) \in punctuation
         THEN SplitSentences(Tail(rest), <<>>, Append(acc, Append(cur, Head(rest))))
         ELSE SplitSentences(Tail(rest), Append(cur, Head(rest)), acc)

sent_tokenize(t) == SplitSentences(t, <<>>, <<>>)

\* ----- the filter of the list comprehension at line 118
Significant(j) == j \notin ignored_words /\ j \notin punctuation

FilterWords(s) == [i \in 1..Len(s) |-> SelectSeq(s[i], Significant)]

\* ----- itertools.chain.from_iterable
RECURSIVE chain(_)
chain(ws) == IF ws = <<>> THEN <<>> ELSE Head(ws) \o chain(Tail(ws))

\* ----- collections.Counter: entries in insertion order
HasKey(c, t) == \E i \in 1..Len(c) : c[i].key = t

CounterIncOnce(c, t) == IF HasKey(c, t) THEN c ELSE Append(c, [key |-> t, n |-> 1])

CounterInc(c, t) ==
    IF HasKey(c, t)
    THEN [i \in 1..Len(c) |-> IF c[i].key = t THEN [key |-> t, n |-> c[i].n + 1] ELSE c[i]]
    ELSE Append(c, [key |-> t, n |-> 1])

RECURSIVE CounterUpdate(_, _)
CounterUpdate(c, elems) ==
    IF elems = <<>> THEN c ELSE CounterUpdate(CounterInc(c, Head(elems)), Tail(elems))

Counter(elems) == CounterUpdate(<<>>, elems)

\* Counter.__getitem__: 0 for a missing key
CounterGet(c, t) == IF HasKey(c, t) THEN (CHOOSE e \in Range(c) : e.key = t).n ELSE 0

\* ----- line 121: the frequency model of one call, built from nothing
WordFreqShared(ws) == CounterUpdate(word_freq, chain(ws))

WordFreq(ws) == Counter(chain(ws))

\* ----- line 123: list(word_freq.values())[0], the count of the first key
FirstValue(wf) == wf[1].n

\* ----- line 125: sum(word_freq[k] / max_freq for k in j) / len(j)
RECURSIVE SumCounts(_, _)
SumCounts(wf, j) == IF j = <<>> THEN 0 ELSE CounterGet(wf, Head(j)) + SumCounts(wf, Tail(j))

RECURSIVE SumClamped(_, _, _)
SumClamped(wf, mf, j) ==
    IF j = <<>> THEN 0 ELSE Min(CounterGet(wf, Head(j)), mf) + SumClamped(wf, mf, Tail(j))

SentenceScoreClamped(wf, mf, j) == [num |-> SumClamped(wf, mf, j), den |-> mf * Len(j)]

SentenceScoreUndivided(wf, mf, j) == [num |-> SumCounts(wf, j), den |-> mf]

SentenceScore(wf, mf, j) == [num |-> SumCounts(wf, j), den |-> mf * Len(j)]

FreqBySentence(wf, mf, ws) == [i \in 1..Len(ws) |-> SentenceScore(wf, mf, ws[i])]

ScoreGt(x, y) == x.num * y.den > y.num * x.den
ScoreEq(x, y) == x.num * y.den = y.num * x.den

\* ----- Counter.most_common(n): heapq.nlargest, i.e. the first n entries of
\* sorted(items, key=score, reverse=True); equal scores keep insertion order
RankBeforeLatest(fbs, i, j) == ScoreGt(fbs[i], fbs[j]) \/ (ScoreEq(fbs[i], fbs[j]) /\ i > j)

RankBefore(fbs, i, j) == ScoreGt(fbs[i], fbs[j]) \/ (ScoreEq(fbs[i], fbs[j]) /\ i < j)

most_common(fbs, n) ==
    LET pos(i) == Cardinality({j \in 1..Len(fbs) : RankBefore(fbs, j, i)}) + 1
    IN  [p \in 1..Min(n, Len(fbs)) |-> CHOOSE i \in 1..Len(fbs) : pos(i) = p]

\* ----- sorted(...) over the chosen indices
RECURSIVE InsertSorted(_, _)
InsertSorted(x, s) ==
    IF s = <<>> THEN <<x>>
    ELSE IF x <= Head(s) THEN <<x>> \o s
         ELSE <<Head(s)>> \o InsertSorted(x, Tail(s))

RECURSIVE InsertionSort(_)
InsertionSort(s) == IF s = <<>> THEN <<>> ELSE InsertSorted(Head(s), InsertionSort(Tail(s)))

unsorted(s) == s

sorted(s) == InsertionSort(s)

\* ----- " ".join(sentences[j] for j in ...)
join(s, idx) == chain([p \in 1..Len(idx) |-> s[idx[p]]])

\* ----- outcomes of a call
NoResult == [type |-> "none", value |-> <<>>]
Returned(ty, v) == [type |-> ty, value |-> v]
Raised(exc) == [type |-> exc, value |-> <<>>]
Exceptions == {"IndexError", "ZeroDivisionError"}

\* ----- summarize, lines 107-127, as one step
summarize(t, n) ==
    LET s  == sent_tokenize(t)
        ws == FilterWords(s)
    IN  /\ text' = t
        /\ num_sentences' = n
        /\ sentences' = s
        /\ words' = ws
        /\ IF ws = <<>>
           THEN \* line 120: returns the list of sentences itself
                /\ result' = Returned("list", s)
                /\ word_freq' = <<>>
                /\ max_freq' = 0
                /\ freq_by_sentence' = <<>>
                /\ top' = <<>>
           ELSE LET wf == WordFreq(ws) IN
                /\ word_freq' = wf
                /\ IF wf = <<>>
                   THEN \* line 123: [0] of an empty list
                        /\ result' = Raised("IndexError")
                        /\ max_freq' = 0
                        /\ freq_by_sentence' = <<>>
                        /\ top' = <<>>
                   ELSE LET mf == FirstValue(wf) IN
                        /\ max_freq' = mf
                        /\ IF \E i \in 1..Len(ws) : Len(ws[i]) = 0
                           THEN \* line 125: 0 / len(j) with len(j) = 0
                                /\ result' = Raised("ZeroDivisionError")
                                /\ freq_by_sentence' = <<>>
                                /\ top' = <<>>
                           ELSE LET fbs == FreqBySentence(wf, mf, ws)
                                    mc  == most_common(fbs, n)
                                IN  /\ freq_by_sentence' = fbs
                                    /\ top' = mc
                                    /\ result' = Returned("str", join(s, sorted(mc)))

\* ----- the calls of one process: First and Repeat are the calls under
\* study; Other is line 504, summarize(message.content) with the default
\* num_sentences, on another message
First ==
    /\ phase = "new"
    /\ summarize(request.text, request.k)
    /\ first_result' = result'
    /\ phase' = "first"
    /\ UNCHANGED <<request, interleaved>>

Other ==
    /\ phase # "new"
    /\ \E t \in OtherTexts : summarize(t, DEFAULT_SENTENCES)
    /\ phase' = "other"
    /\ interleaved' = TRUE
    /\ UNCHANGED <<request, first_result>>

Repeat ==
    /\ phase # "new"
    /\ summarize(request.text, request.k)
    /\ phase' = "repeat"
    /\ UNCHANGED <<request, first_result, interleaved>>

NothingCalled ==
    /\ first_result = NoResult
    /\ phase = "new"
    /\ interleaved = FALSE
    /\ text = <<>>
    /\ num_sentences = 0
    /\ sentences = <<>>
    /\ words = <<>>
    /\ word_freq = <<>>
    /\ max_freq = 0
    /\ freq_by_sentence = <<>>
    /\ top = <<>>
    /\ result = NoResult

\* one call of summarize on any text and k
Init ==
    /\ request \in [text : Texts, k : Ks]
    /\ NothingCalled

Next == First

Spec == Init /\ [][Next]_vars

\* a process serving messages: the call on request, calls on other messages,
\* and the call on request again
InitCalls ==
    /\ request \in [text : RepeatTexts, k : Ks]
    /\ NothingCalled

NextCalls == First \/ Other \/ Repeat

SpecCalls == InitCalls /\ [][NextCalls]_vars

(***************************************************************************)
(* Properties.  The quantities below are recomputed from the state by      *)
(* counting, independently of the Counter and ranking operators above.     *)
(***************************************************************************)
Called == phase # "new"
Selected == Range(top)
Scorable(i) == Len(words[i]) > 0
ScorableSet == {i \in DOMAIN words : Scorable(i)}
TokenPositions == UNION {{<<i, p>> : p \in DOMAIN words[i]} : i \in DOMAIN words}
Occ(t) == Cardinality({ip \in TokenPositions : words[ip[1]][ip[2]] = t})
MaxOcc == CHOOSE m \in {Occ(t) : t \in Vocabulary} : \A t \in Vocabulary : Occ(t) <= m

RECURSIVE SumOcc(_)
SumOcc(j) == IF j = <<>> THEN 0 ELSE Occ(Head(j)) + SumOcc(Tail(j))

\* score(s) = (sum over tokens t of s of count(t) / maxFrequency) / len(tokens of s)
Score(i) == [num |-> SumOcc(words[i]), den |-> MaxOcc * Len(words[i])]

RECURSIVE AscendingJoin(_)
AscendingJoin(S) ==
    IF S = {} THEN <<>>
    ELSE LET m == CHOOSE x \in S : \A y \in S : x <= y
         IN  sentences[m] \o AscendingJoin(S \ {m})

RECURSIVE SumValues(_)
SumValues(c) == IF c = <<>> THEN 0 ELSE Head(c).n + SumValues(Tail(c))

\* C1: when summarize returns a summary, no sentence left out of it has a
\* strictly greater score than a sentence included in it.
C1_BestScoring ==
    result.type = "str" =>
        \A i \in Selected : \A j \in ScorableSet \ Selected :
            ~ScoreGt(Score(j), Score(i))

C1_Witness ==
    /\ result.type = "str"
    /\ \E i \in Selected : \E j \in ScorableSet \ Selected :
          j < i /\ ScoreGt(Score(i), Score(j))

\* C2: the sentences of the returned string appear in ascending original
\* sentence index, whatever their rank order.
C2_OrderingLaw ==
    result.type = "str" => result.value = AscendingJoin(Selected)

C2_Witness ==
    /\ result.type = "str"
    /\ Len(top) >= 2
    /\ top[1] > top[2]
    /\ sentences[top[1]] # sentences[top[2]]

\* C3: every call returns exactly min(k, m) sentences, m the number of
\* scorable sentences, each a distinct scorable sentence appearing once,
\* and never raises.
C3_ExactlyMinKM ==
    Called =>
        /\ result.type \notin Exceptions
        /\ Len(top) = Min(num_sentences, Cardinality(ScorableSet))
        /\ Cardinality(Selected) = Len(top)
        /\ Selected \subseteq ScorableSet

C5_StopwordOnlyFallback ==
    (Called /\ sentences # <<>> /\ ScorableSet = {}) =>
        /\ result.type \in {"str", "list"}
        /\ result.value \in {text, sentences}

\* C6: a text mixing scorable sentences with zero-token sentences does not
\* raise, and its summary is chosen among the scorable sentences only.
C6_MixedTextNoRaise ==
    (Called /\ ScorableSet # {} /\ ScorableSet # DOMAIN words) =>
        /\ result.type = "str"
        /\ Selected # {}
        /\ Selected \subseteq ScorableSet

\* C7: the empty text returns the empty string, a string like every other
\* result, and never raises.
C7_EmptyTextReturnsString ==
    (Called /\ text = <<>>) => result = Returned("str", <<>>)

C9_MaxFreqIsGreatest ==
    (Called /\ word_freq # <<>>) =>
        /\ max_freq = MaxOcc
        /\ \A e \in Range(word_freq) : 0 < e.n /\ e.n <= max_freq

\* C10: the frequency model maps each token to its exact number of
\* occurrences over all sentences: every key has count >= 1, a token that
\* does not occur is never a key, and the counts sum to the number of
\* significant tokens.
C10_FrequencyModelExact ==
    (Called /\ words # <<>>) =>
        /\ \A x \in DOMAIN word_freq : \A y \in DOMAIN word_freq :
              word_freq[x].key = word_freq[y].key => x = y
        /\ \A e \in Range(word_freq) : e.n >= 1 /\ e.n = Occ(e.key)
        /\ \A t \in Vocabulary : Occ(t) > 0 => HasKey(word_freq, t)
        /\ SumValues(word_freq) = Cardinality(TokenPositions)

C10_Witness ==
    /\ Called
    /\ Len(word_freq) >= 2
    /\ \E e \in Range(word_freq) : e.n >= 2
    /\ \E i \in DOMAIN sentences : \E p \in DOMAIN sentences[i] :
          sentences[i][p] \in ignored_words

\* the selection made with the true maximum count as the normalizer
RefBefore(j, i) == ScoreGt(Score(j), Score(i)) \/ (ScoreEq(Score(j), Score(i)) /\ j < i)
RefSelected ==
    {i \in DOMAIN words : Cardinality({j \in DOMAIN words : RefBefore(j, i)}) < num_sentences}

====
